---- MODULE Spec2Model ----
(***************************************************************************)
(* A model of utuntap: the OpenOptions builder of src/src/lib.rs, its Tun  *)
(* and Tap facades, and the three compile-time variants of open():         *)
(*   linux   - open /dev/net/tun, then the TUNSETIFF ioctl                 *)
(*   openbsd - open /dev/<candidate name>                                  *)
(*   macos   - utun control socket: socket, CTLIOCGINFO ioctl, connect,    *)
(*             getsockopt, fcntl                                           *)
(* Text is modelled as sequences of bytes (Rust Strings are UTF-8 bytes).  *)
(* The kernel is the environment: every system call picks its outcome      *)
(* nondeterministically.                                                   *)
(***************************************************************************)
EXTENDS Integers, Sequences, FiniteSets, TLC

VARIABLES
    os,        \* the cfg(target_os) the crate was built for
    facade,    \* which builder the caller holds: "core", "tun" or "tap"
    options,   \* the fields of struct OpenOptions
    lastSet,   \* history: the value last passed to each setter (or the default)
    pc,        \* position inside open(); "idle" between calls
    fdtable,   \* the kernel's open descriptors of this process: fd -> status
    owned,     \* descriptors whose File was returned to the caller
    opens,     \* number of open() calls started so far
    trace,     \* system calls issued by the current/last open(), in order
    result,    \* how the last open() ended
    request,   \* linux: struct Request as passed to the TUNSETIFF ioctl
    reply,     \* linux: struct Request as the kernel left it
    name_buf,  \* macos: interface name the kernel wrote in getsockopt
    shown,     \* what the last device_name() call returned
    fresh      \* TRUE until the first setter or open() call on the builder

vars == <<os, facade, options, lastSet, pc, fdtable, owned, opens, trace,
          result, request, reply, name_buf, shown, fresh>>

(***************************************************************************)
(* Bounds and program constants                                            *)
(***************************************************************************)
\* open() calls per behaviour
MaxOpens == 2

\* number: Option<u8>
U8Max == 255

\* libc::IFNAMSIZ, the width of Request.name
IFNAMSIZ == 16

IFF_TUN == 1
IFF_TAP == 2
IFF_NO_PI == 4096

\* c_short is 16 bits wide
ShortBits == 16

\* device numbers the caller passes in the acquisition model
Numbers == {0, 10, 255}

\* every u8
AllNumbers == 0 .. U8Max

OSes == {"linux", "openbsd", "macos"}
Modes == {"Tun", "Tap"}
Facades == {"core", "tun", "tap"}

\* errno values the kernel may report for a failing call
Errnos == {"ENOENT", "EACCES", "EBUSY"}

\* return values of ioctl(2): -1 on error, 0 or a positive value on success
IoctlReturns == {-1, 0, 1}

\* return values of socket-level calls (connect, getsockopt, fcntl)
CallReturns == {-1, 0}

(***************************************************************************)
(* Text                                                                    *)
(***************************************************************************)
\* "tun", "tap", "utun", "/dev", "/dev/net/tun" as bytes
TextTun == <<116, 117, 110>>
TextTap == <<116, 97, 112>>
TextUtun == <<117, 116, 117, 110>>
TextDev == <<47, 100, 101, 118>>
TextDevNetTun == <<47, 100, 101, 118, 47, 110, 101, 116, 47, 116, 117, 110>>

\* Option<T>: None is <<>>, Some(v) is <<v>>
None == <<>>
Some(v) == <<v>>

\* the number zero-padded to sixteen digits ("{:016}")
U8Text_ZeroPadded(n) ==
    <<48, 48, 48, 48, 48, 48, 48, 48, 48, 48, 48, 48, 48>>
    \o <<48 + (n \div 100), 48 + ((n \div 10) % 10), 48 + (n % 10)>>

\* Display for u8: decimal digits, most significant first, no padding
RECURSIVE U8Text(_)
U8Text(n) ==
    IF n < 10 THEN <<48 + n>>
    ELSE U8Text(n \div 10) \o <<48 + (n % 10)>>

\* Display for Mode: panic |-> TRUE models unimplemented!()
ModeText(target, mode) ==
    IF target = "macos"
    THEN IF mode = "Tap"
         THEN [panic |-> TRUE, text |-> <<>>]
         ELSE [panic |-> FALSE, text |-> TextUtun]
    ELSE [panic |-> FALSE, text |-> IF mode = "Tap" THEN TextTap ELSE TextTun]

\* device_name with the missing number read as 0 (number.unwrap_or_default())
device_name_DefaultNumber(target, opts) ==
    LET m == ModeText(target, opts.mode)
        n == IF opts.number # None THEN opts.number[1] ELSE 0
    IN IF m.panic
       THEN [kind |-> "Panic", text |-> <<>>]
       ELSE [kind |-> "Some", text |-> m.text \o U8Text(n)]

\* OpenOptions::device_name: kind is "None", "Some" or "Panic"
device_name(target, opts) ==
    IF opts.number # None
    THEN LET m == ModeText(target, opts.mode)
         IN IF m.panic
            THEN [kind |-> "Panic", text |-> <<>>]
            ELSE [kind |-> "Some", text |-> m.text \o U8Text(opts.number[1])]
    ELSE [kind |-> "None", text |-> <<>>]

(***************************************************************************)
(* Configuration                                                           *)
(***************************************************************************)
\* new() with nonblock switched on
New_NonblockOn ==
    [mode |-> "Tun", number |-> None, read |-> TRUE, write |-> TRUE,
     nonblock |-> TRUE, packet_info |-> FALSE]

\* OpenOptions::new. packet_info exists on linux only and nonblock on unix
\* only; on the other targets the record keeps the field at its default and
\* no setter reaches it.
New ==
    [mode |-> "Tun", number |-> None, read |-> TRUE, write |-> TRUE,
     nonblock |-> FALSE, packet_info |-> FALSE]

SetRead(opts, enabled) == [opts EXCEPT !.read = enabled]
SetWrite(opts, enabled) == [opts EXCEPT !.write = enabled]
SetNonblock(opts, enabled) == [opts EXCEPT !.nonblock = enabled]
\* mode() that rebuilds the record and so loses the number
SetMode_ResetsNumber(opts, mode) == [opts EXCEPT !.mode = mode, !.number = None]
SetMode(opts, mode) == [opts EXCEPT !.mode = mode]
\* number() that keeps a number already set
SetNumber_KeepFirst(opts, value) ==
    IF opts.number = None THEN [opts EXCEPT !.number = Some(value)] ELSE opts
SetNumber(opts, value) == [opts EXCEPT !.number = Some(value)]
SetPacketInfo(opts, enabled) == [opts EXCEPT !.packet_info = enabled]

\* tun::OpenOptions::new and tap::OpenOptions::new
TunNew == SetMode(New, "Tun")
\* tap::OpenOptions::new without its options.mode(Mode::Tap) line
TapNew_ModeNotSet == New
TapNew == SetMode(New, "Tap")

FacadeNew(f) ==
    IF f = "tun" THEN TunNew
    ELSE IF f = "tap" THEN TapNew
    ELSE New

NoResult == [kind |-> "none", name |-> <<>>, step |-> "", errno |-> "", fd |-> 0]
ZeroName == [i \in 1 .. IFNAMSIZ |-> 0]
NoRequest == [name |-> ZeroName, flags |-> 0]
NotShown == [kind |-> "NotCalled", text |-> <<>>]

Init ==
    /\ os \in OSes
    /\ facade \in Facades
    /\ options = FacadeNew(facade)
    /\ lastSet = FacadeNew(facade)
    /\ pc = "idle"
    /\ fdtable = <<>>
    /\ owned = {}
    /\ opens = 0
    /\ trace = <<>>
    /\ result = NoResult
    /\ request = NoRequest
    /\ reply = NoRequest
    /\ name_buf = <<>>
    /\ shown = NotShown
    /\ fresh = TRUE

(***************************************************************************)
(* The request record of the ioctl-attach backend (interface/linux.rs)     *)
(***************************************************************************)
Pad(text) == [i \in 1 .. IFNAMSIZ |-> IF i <= Len(text) THEN text[i] ELSE 0]

\* the copy of the device name left out: the field stays zeroed
name_IgnoresNumber(dn) == [panic |-> FALSE, bytes |-> ZeroName]

\* fn name: name[..device_name.len()].clone_from_slice(..); the slice panics
\* when the text is longer than the field
name(dn) ==
    IF dn.kind = "Some"
    THEN IF Len(dn.text) > IFNAMSIZ
         THEN [panic |-> TRUE, bytes |-> ZeroName]
         ELSE [panic |-> FALSE, bytes |-> Pad(dn.text)]
    ELSE [panic |-> FALSE, bytes |-> ZeroName]

\* bitwise OR of two naturals
RECURSIVE BitOr(_, _)
BitOr(a, b) ==
    IF a = 0 THEN b
    ELSE IF b = 0 THEN a
    ELSE (IF a % 2 = 1 \/ b % 2 = 1 THEN 1 ELSE 0) + 2 * BitOr(a \div 2, b \div 2)

\* the flags block with the packet_info test inverted
Flags_PacketInfoInverted(opts) ==
    LET base == IF opts.mode = "Tun" THEN IFF_TUN ELSE IFF_TAP
    IN (IF opts.packet_info THEN BitOr(base, IFF_NO_PI) ELSE base) % (2 ^ ShortBits)

\* the flags block of open (linux)
Flags(opts) ==
    LET base == IF opts.mode = "Tun" THEN IFF_TUN ELSE IFF_TAP
    IN (IF ~opts.packet_info THEN BitOr(base, IFF_NO_PI) ELSE base) % (2 ^ ShortBits)

\* Request::with_flags
with_flags(dn, flags) ==
    LET n == name(dn)
    IN [panic |-> n.panic, name |-> n.bytes, flags |-> flags]

\* the whole name field, not stopping at the first zero byte
TakeWhileNonZero_WholeField(bytes) == bytes

\* self.name.iter().take_while(|n| **n != 0)
RECURSIVE TakeWhileNonZero(_)
TakeWhileNonZero(bytes) ==
    IF bytes = <<>> \/ Head(bytes) = 0 THEN <<>>
    ELSE <<Head(bytes)>> \o TakeWhileNonZero(Tail(bytes))

Cont(b) == b >= 128 /\ b <= 191

\* a decoder that accepts every byte sequence (from_utf8_unchecked)
IsUtf8_AcceptAll(b) == TRUE

\* String::from_utf8 accepts exactly the well-formed UTF-8 byte sequences
RECURSIVE IsUtf8(_)
IsUtf8(b) ==
    IF b = <<>> THEN TRUE
    ELSE LET h == b[1]
             n == Len(b)
         IN IF h < 128 THEN IsUtf8(SubSeq(b, 2, n))
            ELSE IF h >= 194 /\ h <= 223
            THEN n >= 2 /\ Cont(b[2]) /\ IsUtf8(SubSeq(b, 3, n))
            ELSE IF h >= 224 /\ h <= 239
            THEN /\ n >= 3
                 /\ Cont(b[2])
                 /\ Cont(b[3])
                 /\ (h = 224 => b[2] >= 160)
                 /\ (h = 237 => b[2] <= 159)
                 /\ IsUtf8(SubSeq(b, 4, n))
            ELSE IF h >= 240 /\ h <= 244
            THEN /\ n >= 4
                 /\ Cont(b[2])
                 /\ Cont(b[3])
                 /\ Cont(b[4])
                 /\ (h = 240 => b[2] >= 144)
                 /\ (h = 244 => b[2] <= 143)
                 /\ IsUtf8(SubSeq(b, 5, n))
            ELSE FALSE

\* what the kernel may leave in the name field after a successful TUNSETIFF:
\* the name as requested, a name it assigned ("tun0"/"tap7"), a name with a
\* two-byte character, a name that fills the field, or bytes that are no text
KernelNames(req) ==
    LET prefix == IF req.flags % 2 = 1 THEN TextTun ELSE TextTap
    IN (IF req.name # ZeroName THEN {req.name} ELSE {})
       \cup {Pad(prefix \o <<48>>), Pad(prefix \o <<55>>),
             Pad(<<116, 195, 169>>),
             [i \in 1 .. IFNAMSIZ |-> 97],
             Pad(<<255>>), Pad(<<116, 195>>)}

(***************************************************************************)
(* Descriptors                                                             *)
(***************************************************************************)
\* the lowest descriptor not in use
NewFd ==
    CHOOSE n \in 3 .. (3 + MaxOpens) :
        /\ n \notin DOMAIN fdtable
        /\ \A m \in 3 .. (n - 1) : m \in DOMAIN fdtable

\* close(2) of one descriptor
Close(table, fd) == [d \in (DOMAIN table) \ {fd} |-> table[d]]

\* one system call as issued: its argument, what it returned, and the errno
\* the caller picked up for it ("" when the caller took it as a success)
Call(c, arg, ret, errno) == [call |-> c, arg |-> arg, ret |-> ret, errno |-> errno]

\* the test of the macos branch used here: every non-zero code is a failure
IoctlFailed_NonZero(ret) == ret # 0

\* linux.rs:44: if result == -1
IoctlFailed(ret) == ret = -1

\* a failure test that never fires
CallFailed_Never(err) == FALSE

\* lib.rs:211, 233, 248, 253, 259: if err != 0
CallFailed(err) == err # 0

\* std::fs::OpenOptions::open refuses a request with neither read nor write
\* (EINVAL) before any system call
NoAccessMode(opts) == ~opts.read /\ ~opts.write

\* status of a descriptor opened by std::fs::OpenOptions (O_CLOEXEC always)
FileStatus(opts) ==
    [read |-> opts.read, write |-> opts.write, nonblock |-> opts.nonblock,
     cloexec |-> TRUE]

Ok(fd, text) == [kind |-> "ok", name |-> text, step |-> "", errno |-> "", fd |-> fd]
Err(step, errno) == [kind |-> "err", name |-> <<>>, step |-> step, errno |-> errno, fd |-> 0]
Panic(step) == [kind |-> "panic", name |-> <<>>, step |-> step, errno |-> "", fd |-> 0]

\* open() may be called through the core builder and the Tun facade; the Tap
\* facade's open(number) has another signature
CanOpen ==
    /\ pc = "idle"
    /\ facade # "tap"
    /\ opens < MaxOpens

(***************************************************************************)
(* open, linux                                                             *)
(***************************************************************************)
\* lines 111-120: options.open("/dev/net/tun")?
LinuxOpenFile ==
    /\ os = "linux"
    /\ CanOpen
    /\ opens' = opens + 1
    /\ fresh' = FALSE
    /\ reply' = NoRequest
    /\ name_buf' = <<>>
    /\ IF NoAccessMode(options)
       THEN /\ trace' = <<>>
            /\ result' = Err("open", "EINVAL")
            /\ UNCHANGED <<pc, fdtable>>
       ELSE \/ /\ trace' = <<Call("open", TextDevNetTun, NewFd, "")>>
               /\ fdtable' = fdtable @@ (NewFd :> FileStatus(options))
               /\ result' = [NoResult EXCEPT !.fd = NewFd]
               /\ pc' = "linux_ioctl"
            \/ /\ \E e \in Errnos :
                    /\ trace' = <<Call("open", TextDevNetTun, -1, e)>>
                    /\ result' = Err("open", e)
               /\ UNCHANGED <<pc, fdtable>>
    /\ UNCHANGED <<os, facade, options, lastSet, owned, shown, request>>

\* lines 121-142: Request::with_flags(..).set_tuntap(fd)?, Ok((file, filename)).
\* The File is dropped, and so closed, on the error return and on a panic.
LinuxSetTuntap ==
    /\ pc = "linux_ioctl"
    /\ pc' = "idle"
    /\ LET fd == result.fd
           req == with_flags(device_name(os, options), Flags(options))
       IN IF req.panic
          THEN /\ result' = Panic("name")
               /\ fdtable' = Close(fdtable, fd)
               /\ UNCHANGED <<trace, request, reply, owned>>
          ELSE /\ request' = [name |-> req.name, flags |-> req.flags]
               /\ \E ret \in IoctlReturns :
                    IF IoctlFailed(ret)
                    THEN /\ \E e \in Errnos :
                              /\ trace' = Append(trace, Call("ioctl_TUNSETIFF", <<>>, ret, e))
                              /\ result' = Err("ioctl_TUNSETIFF", e)
                         /\ reply' = request'
                         /\ fdtable' = Close(fdtable, fd)
                         /\ UNCHANGED owned
                    ELSE \E kn \in KernelNames(request') :
                         /\ trace' = Append(trace, Call("ioctl_TUNSETIFF", <<>>, ret, ""))
                         /\ reply' = [request' EXCEPT !.name = kn]
                         /\ LET filename == TakeWhileNonZero(kn)
                            IN IF IsUtf8(filename)
                               THEN /\ result' = Ok(fd, filename)
                                    /\ owned' = owned \cup {fd}
                                    /\ UNCHANGED fdtable
                               ELSE /\ result' = Panic("from_utf8")
                                    /\ fdtable' = Close(fdtable, fd)
                                    /\ UNCHANGED owned
    /\ UNCHANGED <<os, facade, options, lastSet, fresh, opens, name_buf, shown>>

\* The observations of an open() describe the configuration as it stands: a
\* setter call starts a new configuration and clears them.
Forget ==
    /\ trace' = <<>>
    /\ result' = NoResult
    /\ request' = NoRequest
    /\ reply' = NoRequest
    /\ name_buf' = <<>>
    /\ shown' = NotShown
    /\ fresh' = FALSE
    /\ UNCHANGED <<os, facade, pc, fdtable, owned, opens>>

\* The setters. Only the crate-private OpenOptions has mode(); the Tap
\* facade has no number(); packet_info() is compiled on linux only.
Read ==
    /\ pc = "idle"
    /\ \E enabled \in BOOLEAN :
        /\ options' = SetRead(options, enabled)
        /\ lastSet' = [lastSet EXCEPT !.read = enabled]
    /\ Forget

Write ==
    /\ pc = "idle"
    /\ \E enabled \in BOOLEAN :
        /\ options' = SetWrite(options, enabled)
        /\ lastSet' = [lastSet EXCEPT !.write = enabled]
    /\ Forget

Nonblock ==
    /\ pc = "idle"
    /\ \E enabled \in BOOLEAN :
        /\ options' = SetNonblock(options, enabled)
        /\ lastSet' = [lastSet EXCEPT !.nonblock = enabled]
    /\ Forget

Mode ==
    /\ pc = "idle"
    /\ facade = "core"
    /\ \E mode \in Modes :
        /\ options' = SetMode(options, mode)
        /\ lastSet' = [lastSet EXCEPT !.mode = mode]
    /\ Forget

Number ==
    /\ pc = "idle"
    /\ facade # "tap"
    /\ \E value \in Numbers :
        /\ options' = SetNumber(options, value)
        /\ lastSet' = [lastSet EXCEPT !.number = Some(value)]
    /\ Forget

PacketInfo ==
    /\ pc = "idle"
    /\ os = "linux"
    /\ \E enabled \in BOOLEAN :
        /\ options' = SetPacketInfo(options, enabled)
        /\ lastSet' = [lastSet EXCEPT !.packet_info = enabled]
    /\ Forget

(***************************************************************************)
(* open, openbsd                                                           *)
(***************************************************************************)
\* the two paths glued with no separator
PathJoin_NoSeparator(base, file) == base \o file

\* Path::join: an absolute second path replaces the first
PathJoin(base, file) ==
    IF file # <<>> /\ file[1] = 47 THEN file ELSE base \o <<47>> \o file

\* an open() that takes the number out of the configuration (self.number.take())
OpenbsdOpen_TakesNumber ==
    /\ os = "openbsd"
    /\ CanOpen
    /\ opens' = opens + 1
    /\ fresh' = FALSE
    /\ LET dn == device_name(os, options)
       IN IF dn.kind # "Some"
          THEN /\ result' = Panic("expect_number")
               /\ trace' = <<>>
               /\ UNCHANGED <<fdtable, owned>>
          ELSE IF NoAccessMode(options)
          THEN /\ result' = Err("open", "EINVAL")
               /\ trace' = <<>>
               /\ UNCHANGED <<fdtable, owned>>
          ELSE \/ /\ trace' = <<Call("open", PathJoin(TextDev, dn.text), NewFd, "")>>
                  /\ fdtable' = fdtable @@ (NewFd :> FileStatus(options))
                  /\ owned' = owned \cup {NewFd}
                  /\ result' = Ok(NewFd, dn.text)
               \/ /\ \E e \in Errnos :
                       /\ trace' = <<Call("open", PathJoin(TextDev, dn.text), -1, e)>>
                       /\ result' = Err("open", e)
                  /\ UNCHANGED <<fdtable, owned>>
    /\ options' = [options EXCEPT !.number = None]
    /\ UNCHANGED <<os, facade, lastSet, pc, request, reply, name_buf, shown>>

\* lines 145-164, the whole function: one open(2) at most
OpenbsdOpen ==
    /\ os = "openbsd"
    /\ CanOpen
    /\ opens' = opens + 1
    /\ fresh' = FALSE
    /\ LET dn == device_name(os, options)
       IN IF dn.kind # "Some"
          THEN /\ result' = Panic("expect_number")
               /\ trace' = <<>>
               /\ UNCHANGED <<fdtable, owned>>
          ELSE IF NoAccessMode(options)
          THEN /\ result' = Err("open", "EINVAL")
               /\ trace' = <<>>
               /\ UNCHANGED <<fdtable, owned>>
          ELSE \/ /\ trace' = <<Call("open", PathJoin(TextDev, dn.text), NewFd, "")>>
                  /\ fdtable' = fdtable @@ (NewFd :> FileStatus(options))
                  /\ owned' = owned \cup {NewFd}
                  /\ result' = Ok(NewFd, dn.text)
               \/ /\ \E e \in Errnos :
                       /\ trace' = <<Call("open", PathJoin(TextDev, dn.text), -1, e)>>
                       /\ result' = Err("open", e)
                  /\ UNCHANGED <<fdtable, owned>>
    /\ UNCHANGED <<os, facade, options, lastSet, pc, request, reply, name_buf, shown>>

(***************************************************************************)
(* open, macos                                                             *)
(***************************************************************************)
\* a fresh socket: bidirectional, blocking, inherited across exec
SocketStatus == [read |-> TRUE, write |-> TRUE, nonblock |-> FALSE, cloexec |-> FALSE]

\* the interface name the kernel reports for a connected utun socket: the
\* unit as requested, the unit before it, or a unit the kernel picked
UtunNames(n) ==
    {TextUtun \o U8Text(n)}
    \cup (IF n > 0 THEN {TextUtun \o U8Text(n - 1)} ELSE {TextUtun \o U8Text(3)})

\* the Tap check left out
TapUnsupported_Never(opts) == FALSE

\* lines 184-186: if let Mode::Tap = self.mode { unimplemented!(..) }
TapUnsupported(opts) == opts.mode = "Tap"

\* lines 184-192: the Tap check and socket(); the raw fd is owned by nobody
\* until File::from_raw_fd at line 264
MacSocket ==
    /\ os = "macos"
    /\ CanOpen
    /\ opens' = opens + 1
    /\ fresh' = FALSE
    /\ name_buf' = <<>>
    /\ IF TapUnsupported(options)
       THEN /\ result' = Panic("unimplemented_tap")
            /\ trace' = <<>>
            /\ UNCHANGED <<pc, fdtable>>
       ELSE \/ /\ trace' = <<Call("socket", <<>>, NewFd, "")>>
               /\ fdtable' = fdtable @@ (NewFd :> SocketStatus)
               /\ result' = [NoResult EXCEPT !.fd = NewFd]
               /\ pc' = "mac_ctlinfo"
            \/ /\ \E e \in Errnos :
                    /\ trace' = <<Call("socket", <<>>, -1, e)>>
                    /\ result' = Err("socket", e)
               /\ UNCHANGED <<pc, fdtable>>
    /\ UNCHANGED <<os, facade, options, lastSet, owned, request, reply, shown>>

\* lines 200-223: ioctl(fd, CTLIOCGINFO), then self.number.expect(..) while
\* the address is built
MacCtlInfo ==
    /\ pc = "mac_ctlinfo"
    /\ \E err \in IoctlReturns :
         IF CallFailed(err)
         THEN /\ \E e \in Errnos :
                   /\ trace' = Append(trace, Call("ioctl_CTLIOCGINFO", <<>>, err, e))
                   /\ result' = Err("ioctl_CTLIOCGINFO", e)
              /\ pc' = "idle"
         ELSE /\ trace' = Append(trace, Call("ioctl_CTLIOCGINFO", <<>>, err, ""))
              /\ IF options.number = None
                 THEN /\ result' = Panic("expect_number")
                      /\ pc' = "idle"
                 ELSE /\ pc' = "mac_connect"
                      /\ UNCHANGED result
    /\ UNCHANGED <<os, facade, options, lastSet, fresh, fdtable, owned, opens, request,
                   reply, name_buf, shown>>

\* connect() issued a second time when the first attempt fails
MacConnect_Retry ==
    /\ pc = "mac_connect"
    /\ \E err \in CallReturns :
         IF CallFailed(err)
         THEN /\ \E e \in Errnos :
                   /\ trace' = Append(Append(trace, Call("connect", options.number, err, e)),
                                      Call("connect", options.number, err, e))
                   /\ result' = Err("connect", e)
              /\ pc' = "idle"
         ELSE /\ trace' = Append(trace, Call("connect", options.number, err, ""))
              /\ pc' = "mac_getsockopt"
              /\ UNCHANGED result
    /\ UNCHANGED <<os, facade, options, lastSet, fresh, fdtable, owned, opens, request,
                   reply, name_buf, shown>>

\* lines 225-235: connect() to sc_unit = number
MacConnect ==
    /\ pc = "mac_connect"
    /\ \E err \in CallReturns :
         IF CallFailed(err)
         THEN /\ \E e \in Errnos :
                   /\ trace' = Append(trace, Call("connect", options.number, err, e))
                   /\ result' = Err("connect", e)
              /\ pc' = "idle"
         ELSE /\ trace' = Append(trace, Call("connect", options.number, err, ""))
              /\ pc' = "mac_getsockopt"
              /\ UNCHANGED result
    /\ UNCHANGED <<os, facade, options, lastSet, fresh, fdtable, owned, opens, request,
                   reply, name_buf, shown>>

\* lines 237-250: getsockopt(UTUN_OPT_IFNAME) fills name_buf
MacGetsockopt ==
    /\ pc = "mac_getsockopt"
    /\ \E err \in CallReturns :
         IF CallFailed(err)
         THEN /\ \E e \in Errnos :
                   /\ trace' = Append(trace, Call("getsockopt", <<>>, err, e))
                   /\ result' = Err("getsockopt", e)
              /\ pc' = "idle"
              /\ UNCHANGED name_buf
         ELSE /\ trace' = Append(trace, Call("getsockopt", <<>>, err, ""))
              /\ pc' = "mac_cloexec"
              /\ name_buf' \in UtunNames(options.number[1])
              /\ UNCHANGED result
    /\ UNCHANGED <<os, facade, options, lastSet, fresh, fdtable, owned, opens, request,
                   reply, shown>>

\* the nonblock test inverted
WantsNonblock_Inverted(opts) == ~opts.nonblock

\* line 257: if self.nonblock
WantsNonblock(opts) == opts.nonblock

\* lines 264-267: File::from_raw_fd(fd), Ok((file, self.device_name().unwrap()))
MacReturn(fd) ==
    LET dn == device_name(os, options)
    IN IF dn.kind = "Some" THEN Ok(fd, dn.text) ELSE Panic("unwrap")

\* lines 252-255: fcntl(fd, F_SETFD, FD_CLOEXEC); the call returns here when
\* nonblock is false
MacCloexec ==
    /\ pc = "mac_cloexec"
    /\ \E err \in CallReturns :
         IF CallFailed(err)
         THEN /\ \E e \in Errnos :
                   /\ trace' = Append(trace, Call("fcntl_F_SETFD", <<>>, err, e))
                   /\ result' = Err("fcntl_F_SETFD", e)
              /\ pc' = "idle"
              /\ UNCHANGED <<fdtable, owned>>
         ELSE /\ trace' = Append(trace, Call("fcntl_F_SETFD", <<>>, err, ""))
              /\ fdtable' = [fdtable EXCEPT ![result.fd].cloexec = TRUE]
              /\ IF WantsNonblock(options)
                 THEN /\ pc' = "mac_nonblock"
                      /\ UNCHANGED <<result, owned>>
                 ELSE /\ pc' = "idle"
                      /\ result' = MacReturn(result.fd)
                      /\ owned' = owned \cup {result.fd}
    /\ UNCHANGED <<os, facade, options, lastSet, fresh, opens, request, reply, name_buf,
                   shown>>

\* lines 257-267: fcntl(fd, F_SETFL, O_NONBLOCK) and the return
MacNonblock ==
    /\ pc = "mac_nonblock"
    /\ pc' = "idle"
    /\ \E err \in CallReturns :
         IF CallFailed(err)
         THEN /\ \E e \in Errnos :
                   /\ trace' = Append(trace, Call("fcntl_F_SETFL", <<>>, err, e))
                   /\ result' = Err("fcntl_F_SETFL", e)
              /\ UNCHANGED <<fdtable, owned>>
         ELSE /\ trace' = Append(trace, Call("fcntl_F_SETFL", <<>>, err, ""))
              /\ fdtable' = [fdtable EXCEPT ![result.fd].nonblock = TRUE]
              /\ result' = MacReturn(result.fd)
              /\ owned' = owned \cup {result.fd}
    /\ UNCHANGED <<os, facade, options, lastSet, fresh, opens, request, reply, name_buf,
                   shown>>

(***************************************************************************)
(* device_name() called on its own, as the unit tests do                   *)
(***************************************************************************)
DeviceNameCall ==
    /\ pc = "idle"
    /\ shown' = device_name(os, options)
    /\ UNCHANGED <<os, facade, options, lastSet, fresh, pc, fdtable, owned, opens, trace,
                   result, request, reply, name_buf>>

\* Request::with_flags called on its own: the record is built, nothing is
\* sent
WithFlagsCall ==
    /\ pc = "idle"
    /\ os = "linux"
    /\ shown' = device_name(os, options)
    /\ LET req == with_flags(device_name(os, options), Flags(options))
       IN /\ request' = [name |-> req.name, flags |-> req.flags]
          /\ result' = IF req.panic THEN Panic("name") ELSE NoResult
    /\ UNCHANGED <<os, facade, options, lastSet, fresh, pc, fdtable, owned, opens, trace,
                   reply, name_buf>>

(***************************************************************************)
(* Properties                                                              *)
(***************************************************************************)
Issued(c) == \E i \in DOMAIN trace : trace[i].call = c

\* an open() call has returned (or unwound) and its observations stand
Ended == pc = "idle" /\ result.kind # "none"

\* descriptors open in the kernel that no File of the caller owns
Leaked == (DOMAIN fdtable) \ owned

\* C1: on every backend, when open ends without success, no descriptor it
\* obtained is still open: every open descriptor belongs to a File that an
\* earlier successful open returned.
C1_NoLeakOnFailure ==
    (Ended /\ result.kind # "ok") => Leaked = {}

\* value of a sequence of ASCII digits
RECURSIVE DigitsValue(_)
DigitsValue(d) ==
    IF d = <<>> THEN 0
    ELSE 10 * DigitsValue(SubSeq(d, 1, Len(d) - 1)) + (d[Len(d)] - 48)

\* d is the decimal numeral of n: digits only, no leading zero, value n
IsDecimalOf(d, n) ==
    /\ Len(d) >= 1
    /\ \A i \in DOMAIN d : d[i] >= 48 /\ d[i] <= 57
    /\ (Len(d) > 1 => d[1] # 48)
    /\ DigitsValue(d) = n

\* C2: for every number in 0..255 and every mode, device_name() returns
\* "tun{number}" for Tun and "tap{number}" for Tap, and none exactly when
\* the number was never set.
C2_DeviceNameFormat ==
    shown.kind # "NotCalled" =>
        /\ (shown.kind = "None") <=> (options.number = None)
        /\ options.number # None =>
             /\ shown.kind = "Some"
             /\ Len(shown.text) > 3
             /\ SubSeq(shown.text, 1, 3)
                  = (IF options.mode = "Tun" THEN <<116, 117, 110>> ELSE <<116, 97, 112>>)
             /\ IsDecimalOf(SubSeq(shown.text, 4, Len(shown.text)), options.number[1])

\* C3: a newly constructed configuration (core builder, Tun facade or Tap
\* facade) has read and write on, nonblock and packet_info off, number unset.
C3_Defaults ==
    fresh =>
        /\ options.read = TRUE
        /\ options.write = TRUE
        /\ options.nonblock = FALSE
        /\ options.packet_info = FALSE
        /\ options.number = <<>>

C3_Witness == fresh /\ facade = "tap" /\ options.mode = "Tap"

\* C4: mode, number, packet_info and nonblock each hold the value of the
\* latest call of their setter (the default before any call), and a setter
\* applied twice with one value gives the state of applying it once.
C4_LastWriteWins ==
    /\ options.mode = lastSet.mode
    /\ options.number = lastSet.number
    /\ options.packet_info = lastSet.packet_info
    /\ options.nonblock = lastSet.nonblock
    /\ \A m \in Modes : SetMode(SetMode(options, m), m) = SetMode(options, m)
    /\ \A v \in Numbers : SetNumber(SetNumber(options, v), v) = SetNumber(options, v)
    /\ \A b \in BOOLEAN :
         /\ SetPacketInfo(SetPacketInfo(options, b), b) = SetPacketInfo(options, b)
         /\ SetNonblock(SetNonblock(options, b), b) = SetNonblock(options, b)

C4_Witness ==
    /\ ~fresh
    /\ options.mode = "Tap"
    /\ options.number = <<255>>
    /\ options.packet_info = TRUE
    /\ options.nonblock = TRUE

\* C5: the flags sent with TUNSETIFF have bit 0x0001 set exactly for Tun,
\* bit 0x0002 exactly for Tap, bit 0x1000 exactly when packet_info is false,
\* and no other bit.
C5_FlagsSent ==
    Issued("ioctl_TUNSETIFF") =>
        LET f == request.flags
            tun == f % 2
            tap == (f \div 2) % 2
            nopi == (f \div 4096) % 2
        IN /\ (tun = 1) <=> (options.mode = "Tun")
           /\ (tap = 1) <=> (options.mode = "Tap")
           /\ tun + tap = 1
           /\ (nopi = 1) <=> (options.packet_info = FALSE)
           /\ f = tun + 2 * tap + 4096 * nopi

C5_Witness ==
    /\ Issued("ioctl_TUNSETIFF")
    /\ options.mode = "Tap"
    /\ options.packet_info = TRUE
    /\ request.flags = 2

\* C6: on linux a successful open returns the bytes of the name field as the
\* kernel left it, up to the first zero byte; with a number set and the field
\* left as written that is the candidate name (Tun, 10 gives "tun10").
C6_NameReadBack ==
    (os = "linux" /\ Ended /\ result.kind = "ok") =>
        LET n == Len(result.name)
        IN /\ n <= IFNAMSIZ
           /\ \A i \in 1 .. n : result.name[i] = reply.name[i] /\ result.name[i] # 0
           /\ (n < IFNAMSIZ => reply.name[n + 1] = 0)
           /\ (options.number # None /\ reply.name = request.name) =>
                /\ result.name = device_name(os, options).text
                /\ (options.mode = "Tun" /\ options.number = <<10>>) =>
                     result.name = <<116, 117, 110, 49, 48>>

C6_Witness ==
    /\ os = "linux"
    /\ Ended
    /\ result.kind = "ok"
    /\ options.number = <<10>>
    /\ reply.name = request.name
    /\ result.name = <<116, 117, 110, 49, 48>>

\* C7: on macos the name a successful open returns is the interface name the
\* kernel reported through getsockopt.
C7_KernelNameReturned ==
    (os = "macos" /\ Ended /\ result.kind = "ok") => result.name = name_buf

C10_MissingNumberRecoverable ==
    (os = "macos" /\ Ended /\ options.mode = "Tun" /\ options.number = None) =>
        (result.kind = "err" /\ Leaked = {})

\* text is "tun" or "tap" (by mode) followed by the decimal numeral of n
IsTunTapName(text, mode, n) ==
    /\ Len(text) > 3
    /\ SubSeq(text, 1, 3)
         = (IF mode = "Tun" THEN <<116, 117, 110>> ELSE <<116, 97, 112>>)
    /\ IsDecimalOf(SubSeq(text, 4, Len(text)), n)

\* C11: on openbsd with number set, the only system call is one open(2) of
\* "/dev/" followed by the candidate name; success returns exactly the
\* candidate name; a failure is returned as the open's own error and nothing
\* follows it.
C11_PathBasedOpen ==
    (os = "openbsd" /\ Ended /\ options.number # None) =>
        /\ Len(trace) <= 1
        /\ \A i \in DOMAIN trace :
              /\ trace[i].call = "open"
              /\ Len(trace[i].arg) > 5
              /\ SubSeq(trace[i].arg, 1, 5) = <<47, 100, 101, 118, 47>>
              /\ IsTunTapName(SubSeq(trace[i].arg, 6, Len(trace[i].arg)),
                              options.mode, options.number[1])
        /\ result.kind \in {"ok", "err"}
        /\ result.kind = "ok" =>
              /\ Len(trace) = 1
              /\ trace[1].ret = result.fd
              /\ IsTunTapName(result.name, options.mode, options.number[1])
              /\ result.name = device_name(os, options).text
        /\ result.kind = "err" =>
              /\ result.step = "open"
              /\ result.fd = 0
              /\ (trace # <<>> => trace[1].ret = -1 /\ trace[1].errno = result.errno)

C11_Witness ==
    /\ os = "openbsd"
    /\ Ended
    /\ options.mode = "Tap"
    /\ result.kind = "ok"
    /\ result.name = <<116, 97, 112, 49, 48>>
    /\ trace[1].arg = <<47, 100, 101, 118, 47, 116, 97, 112, 49, 48>>

\* C12: the Tap facade offers what the Tun facade offers: the setters read,
\* write, nonblock, number and packet_info (where compiled) can be called on
\* it, and so can an open() that acquires the device as the Tun facade does.
C12_TapSameCapabilities ==
    (facade = "tap" /\ pc = "idle") =>
        /\ ENABLED Read
        /\ ENABLED Write
        /\ ENABLED Nonblock
        /\ ENABLED Number
        /\ (os = "linux" => ENABLED PacketInfo)
        /\ (opens < MaxOpens => ENABLED (LinuxOpenFile \/ OpenbsdOpen \/ MacSocket))

\* the calls of one successful open(), in the order of the source text
ExpectedSteps ==
    IF os = "linux" THEN <<"open", "ioctl_TUNSETIFF">>
    ELSE IF os = "openbsd" THEN <<"open">>
    ELSE <<"socket", "ioctl_CTLIOCGINFO", "connect", "getsockopt", "fcntl_F_SETFD">>
         \o (IF options.nonblock THEN <<"fcntl_F_SETFL">> ELSE <<>>)

\* C13: the calls of an open() are issued in the order channel, creation or
\* configuration, name resolution; a call is issued only after every call
\* before it succeeded; success is returned only after all of them succeeded.
C13_StepsInOrder ==
    /\ Len(trace) <= Len(ExpectedSteps)
    /\ \A i \in DOMAIN trace : trace[i].call = ExpectedSteps[i]
    /\ \A i \in DOMAIN trace : i < Len(trace) => trace[i].ret # -1
    /\ (Ended /\ result.kind = "ok") =>
          /\ Len(trace) = Len(ExpectedSteps)
          /\ \A i \in DOMAIN trace : trace[i].ret # -1

C13_Witness ==
    /\ os = "macos"
    /\ Ended
    /\ result.kind = "ok"
    /\ options.nonblock
    /\ Len(trace) = 6
    /\ trace[6].call = "fcntl_F_SETFL"

\* C14: within one open() no system call is issued twice; a call that fails
\* is the last one issued, the open() ends there, and the error returned is
\* that call's error.
C14_NoRetry ==
    /\ \A i, j \in DOMAIN trace : i # j => trace[i].call # trace[j].call
    /\ \A i \in DOMAIN trace :
          trace[i].ret = -1 =>
              /\ i = Len(trace)
              /\ pc = "idle"
              /\ result.kind = "err"
              /\ result.step = trace[i].call
              /\ result.errno = trace[i].errno

C14_Witness ==
    /\ os = "macos"
    /\ Ended
    /\ result.kind = "err"
    /\ result.step = "connect"
    /\ Len(trace) = 3
    /\ trace[3].ret = -1

\* C15: the channel a successful open() returns is readable exactly when
\* read is set, writable exactly when write is set, and non-blocking exactly
\* when nonblock is set.
C15_ChannelReflectsIntents ==
    (Ended /\ result.kind = "ok") =>
        /\ fdtable[result.fd].read = options.read
        /\ fdtable[result.fd].write = options.write
        /\ fdtable[result.fd].nonblock = options.nonblock

\* C16: on macos every successful open() has set close-on-exec on the
\* socket, has set non-blocking exactly when nonblock is true, and issued
\* either fcntl only after connect returned 0.
C16_SocketFlagsAfterConnect ==
    os = "macos" =>
        /\ \A i \in DOMAIN trace :
              trace[i].call \in {"fcntl_F_SETFD", "fcntl_F_SETFL"} =>
                  \E j \in 1 .. (i - 1) : trace[j].call = "connect" /\ trace[j].ret = 0
        /\ (Ended /\ result.kind = "ok") =>
              /\ fdtable[result.fd].cloexec = TRUE
              /\ fdtable[result.fd].nonblock = options.nonblock
              /\ Issued("fcntl_F_SETFD")
              /\ Issued("fcntl_F_SETFL") <=> options.nonblock

C16_Witness ==
    /\ os = "macos"
    /\ Ended
    /\ result.kind = "ok"
    /\ options.nonblock
    /\ ~options.read
    /\ fdtable[result.fd].cloexec
    /\ fdtable[result.fd].nonblock

\* index of the first zero byte of a name field (one past the field if none)
FirstZero(field) ==
    IF \E i \in DOMAIN field : field[i] = 0
    THEN CHOOSE i \in DOMAIN field :
            field[i] = 0 /\ \A j \in 1 .. (i - 1) : field[j] # 0
    ELSE Len(field) + 1

\* bytes that cannot be UTF-8 text: a byte that occurs in no UTF-8 encoding
\* before the first zero, or a lead byte with nothing after it
NotText(field) ==
    LET z == FirstZero(field)
    IN \/ \E i \in 1 .. (z - 1) : field[i] \in {192, 193} \cup (245 .. 255)
       \/ (z > 1 /\ field[z - 1] >= 192)

C18_NonZeroFails ==
    (os = "linux" /\ Ended /\ Len(trace) = 2) =>
        /\ (trace[2].ret # 0 => result.kind = "err")
        /\ (result.kind = "ok" => trace[2].ret = 0)

\* C18 amended: on linux, a TUNSETIFF ioctl returning -1 makes open() fail
\* with the OS's last error as the cause; every other return value, zero or
\* positive, is taken as success, so no error is returned for it.
C18_MinusOneFails ==
    (os = "linux" /\ Ended /\ Len(trace) = 2) =>
        /\ trace[2].ret = -1 =>
              /\ result.kind = "err"
              /\ result.step = "ioctl_TUNSETIFF"
              /\ result.errno = trace[2].errno
              /\ result.errno \in Errnos
        /\ trace[2].ret # -1 => result.kind \in {"ok", "panic"}
        /\ result.kind = "ok" => trace[2].ret # -1

C18_Witness ==
    /\ os = "linux"
    /\ Ended
    /\ Len(trace) = 2
    /\ trace[2].ret = -1
    /\ result.kind = "err"
    /\ result.errno = "EBUSY"

\* C19: on linux the name field sent with TUNSETIFF is all zero when number
\* is unset; with a number it is the candidate name from offset 0 followed
\* by zero bytes only, up to the field width.
C19_NameFieldSent ==
    Issued("ioctl_TUNSETIFF") =>
        /\ DOMAIN request.name = 1 .. IFNAMSIZ
        /\ IF options.number = None
           THEN \A i \in 1 .. IFNAMSIZ : request.name[i] = 0
           ELSE \E k \in 1 .. IFNAMSIZ :
                   /\ IsTunTapName(SubSeq(request.name, 1, k), options.mode,
                                   options.number[1])
                   /\ \A i \in (k + 1) .. IFNAMSIZ : request.name[i] = 0

C19_Witness ==
    /\ Issued("ioctl_TUNSETIFF")
    /\ options.mode = "Tap"
    /\ options.number = <<255>>
    /\ SubSeq(request.name, 1, 7) = <<116, 97, 112, 50, 53, 53, 0>>

\* C20: for every mode and every number in 0..255 the candidate name is
\* shorter than the 16-byte name field, so building the request never
\* panics and the last byte of the field stays zero.
C20_NameFitsField ==
    /\ shown.kind = "Some" => Len(shown.text) < IFNAMSIZ
    /\ result.step # "name"
    /\ request.name[IFNAMSIZ] = 0

C20_Witness ==
    /\ os = "linux"
    /\ options.mode = "Tap"
    /\ options.number = <<255>>
    /\ Len(shown.text) = 6
    /\ SubSeq(request.name, 1, 7) = <<116, 97, 112, 50, 53, 53, 0>>

\* C21: whatever facade operations have run, the configuration inside a Tun
\* facade has mode Tun and the one inside a Tap facade has mode Tap.
C21_FacadeModeFixed ==
    /\ facade = "tun" => options.mode = "Tun"
    /\ facade = "tap" => options.mode = "Tap"

C21_Witness ==
    /\ facade = "tun"
    /\ options.mode = "Tun"
    /\ options.number = <<10>>
    /\ options.nonblock
    /\ ~options.read
    /\ opens = 2
    /\ Ended

Fields == {"mode", "number", "read", "write", "nonblock", "packet_info"}

\* every field of the configuration but f is the same before and after
OnlyChanges(f) == \A g \in Fields \ {f} : options'[g] = options[g]

\* C22: each setter changes only the field it names; in particular mode()
\* keeps the number and number() keeps the mode.
C22_SettersFrame ==
    [][/\ Read => OnlyChanges("read")
       /\ Write => OnlyChanges("write")
       /\ Nonblock => OnlyChanges("nonblock")
       /\ Mode => (OnlyChanges("mode") /\ options'.number = options.number)
       /\ Number => (OnlyChanges("number") /\ options'.mode = options.mode)
       /\ PacketInfo => OnlyChanges("packet_info")]_vars

C22_Witness ==
    /\ facade = "core"
    /\ options.mode = "Tap"
    /\ options.number = <<10>>
    /\ ~options.read
    /\ ~options.write
    /\ options.nonblock
    /\ options.packet_info

\* C23: no step of an open() changes a field of the configuration, whether
\* the call ends in success, an error or a panic; so a second open() on the
\* same configuration starts with the same call on the same argument as the
\* first, and on linux builds the same TUNSETIFF request.
C23_OpenKeepsOptions ==
    [][/\ (opens' # opens \/ pc # "idle" \/ pc' # "idle") => options' = options
       /\ (opens' # opens /\ Ended /\ trace # <<>> /\ trace' # <<>>) =>
             /\ trace'[1].call = trace[1].call
             /\ trace'[1].arg = trace[1].arg
       /\ (pc = "linux_ioctl" /\ request # NoRequest) => request' = request]_vars

C23_Witness ==
    /\ os = "openbsd"
    /\ opens = 2
    /\ Ended
    /\ result.kind = "ok"
    /\ result.fd = NewFd - 1
    /\ (NewFd - 2) \in DOMAIN fdtable
    /\ options.number = <<255>>
    /\ options.mode = "Tun"

Next ==
    \/ Read
    \/ Write
    \/ Nonblock
    \/ Mode
    \/ Number
    \/ PacketInfo
    \/ LinuxOpenFile
    \/ LinuxSetTuntap
    \/ OpenbsdOpen
    \/ MacSocket
    \/ MacCtlInfo
    \/ MacConnect
    \/ MacGetsockopt
    \/ MacCloexec
    \/ MacNonblock

Spec == Init /\ [][Next]_vars

(***************************************************************************)
(* device_name as a function of every mode and every Option<u8>            *)
(***************************************************************************)
InitName ==
    /\ os \in OSes
    /\ facade = "core"
    /\ \E m \in Modes, n \in {None} \cup {Some(v) : v \in AllNumbers} :
         options = [New EXCEPT !.mode = m, !.number = n]
    /\ lastSet = options
    /\ pc = "idle"
    /\ fdtable = <<>>
    /\ owned = {}
    /\ opens = 0
    /\ trace = <<>>
    /\ result = NoResult
    /\ request = NoRequest
    /\ reply = NoRequest
    /\ name_buf = <<>>
    /\ shown = NotShown
    /\ fresh = TRUE

NextName ==
    \/ DeviceNameCall
    \/ Mode
    \/ WithFlagsCall

SpecName == InitName /\ [][NextName]_vars
====
